---- MODULE Spec2Model ----
(***************************************************************************)
(* Model of the authentication layer (src/authentication/jwt.ts), the user *)
(* controller (signup, login, whoAmI) and the product controller.          *)
(*                                                                         *)
(* A request is a process that moves through the awaits of its handler:    *)
(* each action is the code between two awaits that touch the repositories  *)
(* or the clock.                                                           *)
(***************************************************************************)
EXTENDS Integers, Sequences, FiniteSets, TLC

VARIABLES
    users,      \* UserRepository: sequence of stored users, in creation order
    products,   \* ProductRepository: set of stored products
    productSeq, \* number of product ids generated so far
    now,        \* wall clock, in seconds (the resolution of iat/exp)
    ticks,      \* number of clock advances taken
    logins,     \* successful logins so far: the credentials and the token signed
    req,        \* req[p]: the in-flight request of process p
    resp        \* the response sent by the last step, if it completed a request

vars == <<users, products, productSeq, now, ticks, logins, req, resp>>

----------------------------------------------------------------------------
(* Bounds *)

MaxUsers == 2
MaxTicks == 2
MaxTokens == 1
MaxProducts == 1

Procs == {1, 2}
Emails == {"a@b.com", "c@d.com"}
Passwords == {"12345678", "87654321"}
Missing == ""
Names == {"n1", "n2"}
Prices == {1, 2}

----------------------------------------------------------------------------
(* jwt.ts constants and metadata *)

JWT_STRATEGY_NAME == "jwt"
JWT_SECRET == "testjwt"
ExpiresIn == 60 * 60

SecuredType ==
    {"IS_AUTHENTICATED", "PERMIT_ALL", "HAS_ANY_ROLE", "HAS_ROLES", "DENY_ALL"}

\* metadata of a method that carries no @secured decorator
NoMetadata == [present |-> FALSE, type |-> "", roles |-> {}, strategy |-> ""]

secured(type, roles, strategy) ==
    [present |-> TRUE, type |-> type, roles |-> roles, strategy |-> strategy]

\* @secured() with every default
securedDefault == secured("IS_AUTHENTICATED", {}, "jwt")

\* the declarations a guarded endpoint is exercised with
Metadatas ==
    {NoMetadata, securedDefault,
     secured("IS_AUTHENTICATED", {}, "basic"),
     secured("PERMIT_ALL", {}, "jwt"),
     secured("DENY_ALL", {}, "jwt"),
     secured("HAS_ANY_ROLE", {"A", "B"}, "jwt"),
     secured("HAS_ROLES", {"A", "B"}, "jwt"),
     secured("HAS_ROLES", {}, "jwt")}

----------------------------------------------------------------------------
(* Values *)

NoHash == [salt |-> "", digest |-> ""]
NoStored == [id |-> 0, email |-> "", password |-> NoHash]
\* `let roles = {}`: the roles object of a user profile has no permissions
EmptyRoles == [hasPermissions |-> FALSE, permissions |-> {}]
NoUser == [id |-> 0, email |-> "", roles |-> EmptyRoles]
NoToken == [kind |-> "none", email |-> "", secret |-> "", iat |-> 0, exp |-> 0]
Malformed == [kind |-> "malformed", email |-> "", secret |-> "", iat |-> 0, exp |-> 0]

\* bcryptjs genSalt / hash / compare: the hash embeds the salt and is a
\* one-way image of the plaintext, never the plaintext itself
genSalt == "salt"
hash(plain, salt) == [salt |-> salt, digest |-> <<salt, plain>>]
bcryptCompare_wrong(plain, stored) == TRUE
bcryptCompare(plain, stored) == stored = hash(plain, stored.salt)

\* jsonwebtoken sign(payload, secret, {expiresIn})
sign(payload, secret, expiresIn, t) ==
    [kind |-> "jwt", email |-> payload.email, secret |-> secret,
     iat |-> t, exp |-> t + expiresIn]

\* a token signed with another key, carrying any claim and lifetime
Forged(email, t) == sign([email |-> email], "other", ExpiresIn, t)

\* the tokens login has handed out
issued == {l.token : l \in logins}

\* the tokens a client can present at time t
Presentable(t) ==
    {NoToken, Malformed} \cup issued \cup {Forged(e, t) : e \in Emails}

\* a request carries a token in the Authorization header, in the access_token
\* query parameter, in both or in neither
Requests(t) ==
    [header : Presentable(t), query : {NoToken}]
        \cup [header : {NoToken, Malformed}, query : Presentable(t)]

\* ExtractJwt.fromExtractors([fromAuthHeaderAsBearerToken, fromUrlQueryParameter])
jwtFromRequest(request) ==
    IF request.header # NoToken THEN request.header ELSE request.query

\* passport-jwt verification of the extracted token against secretOrKey
jwtVerify_noexp(token, t) ==
    /\ token.kind = "jwt"
    /\ token.secret = JWT_SECRET
jwtVerify(token, t) ==
    /\ token.kind = "jwt"
    /\ token.secret = JWT_SECRET
    /\ t < token.exp

\* userRepository.find / findOne ({where: {email}})
find(email) == SelectSeq(users, LAMBDA u : u.email = email)
findOne(email) == IF find(email) = <<>> THEN NoStored ELSE Head(find(email))

\* userRepository.create
create(user) == Append(users, [user EXCEPT !.id = Len(users) + 1])

----------------------------------------------------------------------------
(* Requests *)

Idle ==
    [pc |-> "idle", op |-> "", metadata |-> NoMetadata, token |-> NoToken,
     email |-> "", password |-> "", user |-> NoStored, cur |-> NoUser,
     id |-> 0, at |-> 0, authCalls |-> 0, lookups |-> 0, lookup |-> "",
     doneCalls |-> 0]

NoResp ==
    [op |-> "", status |-> 0, allowed |-> FALSE, metadata |-> NoMetadata,
     token |-> NoToken, email |-> "", password |-> "", user |-> NoStored,
     cur |-> NoUser, id |-> 0, at |-> 0, authCalls |-> 0, lookups |-> 0,
     lookup |-> "", doneCalls |-> 0, result |-> NoToken]

\* the response of request r: status, whether the handler ran, what it returned
Response(r, status, allowed, id, result) ==
    [op |-> r.op, status |-> status, allowed |-> allowed,
     metadata |-> r.metadata, token |-> r.token, email |-> r.email,
     password |-> r.password, user |-> r.user, cur |-> r.cur, id |-> id,
     at |-> r.at, authCalls |-> r.authCalls, lookups |-> r.lookups,
     lookup |-> r.lookup, doneCalls |-> r.doneCalls, result |-> result]

Finish(p, r, status, allowed, id, result) ==
    /\ req' = [req EXCEPT ![p] = Idle]
    /\ resp' = Response(r, status, allowed, id, result)

\* the request sequence: an error thrown by the authentication action or by
\* the handler ends the request with that status
Reject(p, r, status) == Finish(p, r, status, FALSE, 0, NoToken)
Throw(p, r, status) == Finish(p, r, status, TRUE, 0, NoToken)

Init ==
    /\ users = <<>>
    /\ products = {}
    /\ productSeq = 0
    /\ now = 0
    /\ ticks = 0
    /\ logins = {}
    /\ req = [p \in Procs |-> Idle]
    /\ resp = NoResp

----------------------------------------------------------------------------
(* UserController.createUser: POST /signup *)

\* lines 153-161: look the email up, reject a duplicate or a missing password
CreateUserFind(p, email, password) ==
    /\ req[p].pc = "idle"
    /\ LET r == [Idle EXCEPT !.op = "signup", !.email = email,
                             !.password = password, !.lookups = 1]
       IN  IF Len(find(email)) >= 1
             THEN Throw(p, r, 400)
           ELSE IF password = Missing
             THEN Throw(p, r, 400)
           ELSE /\ req' = [req EXCEPT ![p] = [r EXCEPT !.pc = "hash"]]
                /\ resp' = NoResp
    /\ UNCHANGED <<users, products, productSeq, now, ticks, logins>>

\* lines 163-167: hash the password and create the record
CreateUserCreate(p) ==
    /\ req[p].pc = "hash"
    /\ Len(users) < MaxUsers
    /\ LET r == req[p]
           user == [id |-> 0, email |-> r.email,
                    password |-> hash(r.password, genSalt)]
       IN  /\ users' = create(user)
           /\ Finish(p, [r EXCEPT !.user = users'[Len(users')]], 200, TRUE,
                     Len(users'), NoToken)
    /\ UNCHANGED <<products, productSeq, now, ticks, logins>>

----------------------------------------------------------------------------
(* UserController.login: POST /users/login *)

\* lines 92-97: reject missing fields, look the user up
LoginFind(p, email, password) ==
    /\ req[p].pc = "idle"
    /\ LET r == [Idle EXCEPT !.op = "login", !.email = email,
                             !.password = password]
       IN  IF email = Missing \/ password = Missing
             THEN Throw(p, r, 400)
           ELSE IF findOne(email) = NoStored
             THEN Throw(p, [r EXCEPT !.lookups = 1], 401)
           ELSE /\ req' = [req EXCEPT ![p] =
                             [r EXCEPT !.pc = "compare", !.lookups = 1,
                                       !.user = findOne(email)]]
                /\ resp' = NoResp
    /\ UNCHANGED <<users, products, productSeq, now, ticks, logins>>

\* lines 99-112: compare the password, sign {email} for one hour
LoginSign(p) ==
    /\ req[p].pc = "compare"
    /\ Cardinality(logins) < MaxTokens
    /\ LET r == req[p]
           token == sign([email |-> r.email], JWT_SECRET, ExpiresIn, now)
       IN  IF ~bcryptCompare(r.password, r.user.password)
             THEN /\ Throw(p, r, 401)
                  /\ UNCHANGED logins
           ELSE /\ logins' = logins \cup {[email |-> r.email,
                                            password |-> r.password,
                                            token |-> token]}
                /\ Finish(p, [r EXCEPT !.at = now], 200, TRUE, 0, token)
    /\ UNCHANGED <<users, products, productSeq, now, ticks>>

----------------------------------------------------------------------------
(* MyAuthActionProvider.action and the strategy it resolves *)

IsPermitAll_never(metadata) == FALSE
IsPermitAll(metadata) == metadata.present /\ metadata.type = "PERMIT_ALL"

\* MyAuthAuthenticationStrategyProvider.value
StrategyValue(metadata) ==
    IF ~metadata.present THEN "undefined"
    ELSE IF metadata.strategy = JWT_STRATEGY_NAME THEN JWT_STRATEGY_NAME
    ELSE "undefined"

\* action(request) up to the token check of strategy.authenticate
Authenticate(p, op, metadata, request) ==
    /\ req[p].pc = "idle"
    /\ LET r == [Idle EXCEPT !.op = op, !.metadata = metadata,
                             !.token = jwtFromRequest(request), !.at = now]
           a == [r EXCEPT !.authCalls = 1]
       IN  IF IsPermitAll(metadata) \/ StrategyValue(metadata) = "undefined"
             THEN /\ req' = [req EXCEPT ![p] = [r EXCEPT !.pc = "handler"]]
                  /\ resp' = NoResp
           ELSE IF ~jwtVerify(a.token, now)
             THEN Reject(p, a, 401)
           ELSE /\ req' = [req EXCEPT ![p] = [a EXCEPT !.pc = "verifyToken"]]
                /\ resp' = NoResp
    /\ UNCHANGED <<users, products, productSeq, now, ticks, logins>>

LookupOutcomes == {"ok", "UnauthorizedError", "Error"}

\* the calls verifyToken makes to `done`, in order, as <<err, user>> pairs
verifyTokenDones(email, outcome) ==
    IF outcome = "ok"
      THEN IF findOne(email) = NoStored
             THEN << [err |-> FALSE, user |-> NoUser] >>
           ELSE << [err |-> FALSE,
                    user |-> [id |-> findOne(email).id,
                              email |-> findOne(email).email,
                              roles |-> EmptyRoles]] >>
    ELSE IF outcome = "UnauthorizedError"
      THEN << [err |-> FALSE, user |-> NoUser], [err |-> TRUE, user |-> NoUser] >>
    ELSE << [err |-> TRUE, user |-> NoUser] >>

\* verifyToken as the strategy's verify callback; the adapter's promise settles
\* on the first call of `done`; action() then sets the current user
VerifyToken(p, outcome) ==
    /\ req[p].pc = "verifyToken"
    /\ LET dones == verifyTokenDones(req[p].token.email, outcome)
           r == [req[p] EXCEPT !.lookups = 1, !.lookup = outcome,
                               !.doneCalls = Len(dones)]
       IN  IF Head(dones).err
             THEN Reject(p, r, 500)
           ELSE IF Head(dones).user = NoUser
             THEN Reject(p, r, 401)
           ELSE /\ req' = [req EXCEPT ![p] =
                             [r EXCEPT !.pc = "handler",
                                       !.cur = Head(dones).user]]
                /\ resp' = NoResp
    /\ UNCHANGED <<users, products, productSeq, now, ticks, logins>>

\* verifyRoles: not called by verifyToken (line 181 is commented out)
verifyRoles(metadata, userData) ==
    IF metadata.type \in {"IS_AUTHENTICATED", "PERMIT_ALL"} THEN "return"
    ELSE IF metadata.type = "HAS_ANY_ROLE"
      THEN IF metadata.roles = {} \/ ~userData.roles.hasPermissions
             THEN "Unauthorized"
           ELSE IF metadata.roles \cap userData.roles.permissions # {}
             THEN "return"
           ELSE "Unauthorized"
    ELSE IF metadata.type = "HAS_ROLES" /\ metadata.roles # {}
      THEN IF ~userData.roles.hasPermissions THEN "Unauthorized"
           ELSE IF metadata.roles \subseteq userData.roles.permissions
             THEN "return"
           ELSE "Unauthorized"
    ELSE "Unauthorized"

\* UserController.whoAmI: currentUserProfile[securityId]
WhoAmI(p) ==
    /\ req[p].pc = "handler"
    /\ req[p].op = "whoAmI"
    /\ IF req[p].cur = NoUser
         THEN Throw(p, req[p], 500)
       ELSE Finish(p, req[p], 200, TRUE, req[p].cur.id, NoToken)
    /\ UNCHANGED <<users, products, productSeq, now, ticks, logins>>

----------------------------------------------------------------------------
(* ProductController *)

\* the declaration of each product method: create and updateById carry
\* @secured(), the others carry none
MetadataOf(op) ==
    IF op \in {"create", "updateById"} THEN securedDefault ELSE NoMetadata

ProductOps == {"create", "updateAll", "updateById", "replaceById", "deleteById"}

UserIds == 1..MaxUsers
ProductIds == 1..MaxProducts

\* request bodies: a full product, and a partial one ("" and 0: field absent)
Bodies == [name : Names, price : Prices, user_id : UserIds]
Partials ==
    [name : Names \cup {""}, price : Prices \cup {0}, user_id : UserIds \cup {0}]

\* productRepository.findById: the products with that id (none: 404)
findById(id) == {k \in products : k.id = id}

patch(k, data) ==
    [id |-> k.id,
     name |-> IF data.name = "" THEN k.name ELSE data.name,
     price |-> IF data.price = 0 THEN k.price ELSE data.price,
     user_id |-> IF data.user_id = 0 THEN k.user_id ELSE data.user_id]

Handling(p, op) == req[p].pc = "handler" /\ req[p].op = op

\* create: POST /products
ProductCreate(p, product) ==
    /\ Handling(p, "create")
    /\ productSeq < MaxProducts
    /\ IF req[p].cur = NoUser
         THEN /\ Throw(p, req[p], 500)
              /\ UNCHANGED <<products, productSeq>>
       ELSE /\ productSeq' = productSeq + 1
            /\ products' = products \cup
                 {[id |-> productSeq', name |-> product.name,
                   price |-> product.price, user_id |-> req[p].cur.id]}
            /\ Finish(p, req[p], 200, TRUE, productSeq', NoToken)
    /\ UNCHANGED <<users, now, ticks, logins>>

\* updateAll: PATCH /products with a where filter on the name
ProductUpdateAll(p, product, where) ==
    /\ Handling(p, "updateAll")
    /\ products' = {IF where \in {"", k.name} THEN patch(k, product) ELSE k :
                      k \in products}
    /\ Finish(p, req[p], 200, TRUE, 0, NoToken)
    /\ UNCHANGED <<users, productSeq, now, ticks, logins>>

\* updateById, lines 325-330: read the product, compare its owner
ProductUpdateByIdFind(p, id) ==
    /\ Handling(p, "updateById")
    /\ IF findById(id) = {}
         THEN Throw(p, req[p], 404)
       ELSE IF req[p].cur = NoUser
         THEN Throw(p, req[p], 500)
       ELSE IF \E k \in findById(id) : k.user_id # req[p].cur.id
         THEN Throw(p, req[p], 401)
       ELSE /\ req' = [req EXCEPT ![p] = [@ EXCEPT !.pc = "update", !.id = id]]
            /\ resp' = NoResp
    /\ UNCHANGED <<users, products, productSeq, now, ticks, logins>>

\* updateById, lines 331-334: write the name and the price
ProductUpdateByIdWrite(p, product) ==
    /\ req[p].pc = "update"
    /\ IF findById(req[p].id) = {}
         THEN /\ Throw(p, req[p], 404)
              /\ UNCHANGED products
       ELSE /\ products' =
                 {IF k.id = req[p].id
                    THEN [k EXCEPT !.name = product.name, !.price = product.price]
                  ELSE k : k \in products}
            /\ Finish(p, req[p], 204, TRUE, req[p].id, NoToken)
    /\ UNCHANGED <<users, productSeq, now, ticks, logins>>

\* replaceById: PUT /products/{id}
ProductReplaceById(p, id, product) ==
    /\ Handling(p, "replaceById")
    /\ IF findById(id) = {}
         THEN /\ Throw(p, req[p], 404)
              /\ UNCHANGED products
       ELSE /\ products' = {k \in products : k.id # id} \cup
                 {[id |-> id, name |-> product.name, price |-> product.price,
                   user_id |-> product.user_id]}
            /\ Finish(p, req[p], 204, TRUE, id, NoToken)
    /\ UNCHANGED <<users, productSeq, now, ticks, logins>>

\* deleteById: DELETE /products/{id}; the method is not secured, so no current
\* user is ever bound when it runs
ProductDeleteById(p, id) ==
    /\ Handling(p, "deleteById")
    /\ IF findById(id) = {}
         THEN /\ Throw(p, req[p], 404)
              /\ UNCHANGED products
       ELSE IF req[p].cur = NoUser
         THEN /\ Throw(p, req[p], 500)
              /\ UNCHANGED products
       ELSE IF \E k \in findById(id) : k.user_id # req[p].cur.id
         THEN /\ Throw(p, req[p], 401)
              /\ UNCHANGED products
       ELSE /\ products' = {k \in products : k.id # id}
            /\ Finish(p, req[p], 204, TRUE, id, NoToken)
    /\ UNCHANGED <<users, productSeq, now, ticks, logins>>

----------------------------------------------------------------------------
(* The clock *)

\* the clock moves on to the next second or to the second before, of or after
\* the expiry of a token in circulation
Times == {now + 1} \cup UNION {{k.exp - 1, k.exp, k.exp + 1} : k \in issued}

Tick(t) ==
    /\ ticks < MaxTicks
    /\ t > now
    /\ now' = t
    /\ ticks' = ticks + 1
    /\ resp' = NoResp
    /\ UNCHANGED <<users, products, productSeq, logins, req>>

----------------------------------------------------------------------------
(* Specifications *)

\* one client, requests one at a time, endpoints of every declaration, the
\* clock still
Next ==
    \/ \E e \in Emails, w \in Passwords \cup {Missing} : CreateUserFind(1, e, w)
    \/ CreateUserCreate(1)
    \/ \E e \in Emails \cup {Missing}, w \in Passwords \cup {Missing} :
          LoginFind(1, e, w)
    \/ LoginSign(1)
    \/ \E m \in Metadatas, q \in Requests(now) : Authenticate(1, "whoAmI", m, q)
    \/ \E o \in LookupOutcomes : VerifyToken(1, o)
    \/ WhoAmI(1)

Spec == Init /\ [][Next]_vars

\* one client, the clock running: signup and login with the right password,
\* then requests to an open and to a guarded endpoint as tokens age
ClockNext ==
    \/ \E e \in Emails : CreateUserFind(1, e, "12345678")
    \/ CreateUserCreate(1)
    \/ \E e \in Emails : LoginFind(1, e, "12345678")
    \/ LoginSign(1)
    \/ \E m \in {securedDefault, secured("PERMIT_ALL", {}, "jwt")},
          q \in Requests(now) : Authenticate(1, "whoAmI", m, q)
    \/ \E o \in LookupOutcomes : VerifyToken(1, o)
    \/ WhoAmI(1)
    \/ \E t \in Times : Tick(t)

ClockSpec == Init /\ [][ClockNext]_vars

\* two clients at once: signup, login and whoAmI as declared, the clock still
RaceNext ==
    \E p \in Procs :
        \/ \E e \in Emails, w \in Passwords \cup {Missing} : CreateUserFind(p, e, w)
        \/ CreateUserCreate(p)
        \/ \E e \in Emails, w \in Passwords : LoginFind(p, e, w)
        \/ LoginSign(p)
        \/ \E k \in issued \cup {NoToken} :
              Authenticate(p, "whoAmI", securedDefault,
                           [header |-> k, query |-> NoToken])
        \/ VerifyToken(p, "ok")
        \/ WhoAmI(p)

RaceSpec == Init /\ [][RaceNext]_vars

\* the product methods, after signup and login with the right password, the
\* clock still
ProductNext ==
    \E p \in Procs :
        \/ \E e \in Emails : CreateUserFind(p, e, "12345678")
        \/ CreateUserCreate(p)
        \/ \E e \in Emails : LoginFind(p, e, "12345678")
        \/ LoginSign(p)
        \/ \E op \in ProductOps, k \in issued \cup {NoToken} :
              Authenticate(p, op, MetadataOf(op),
                           [header |-> k, query |-> NoToken])
        \/ VerifyToken(p, "ok")
        \/ \E b \in Bodies : ProductCreate(p, b)
        \/ \E b \in Partials, w \in Names \cup {""} : ProductUpdateAll(p, b, w)
        \/ \E id \in ProductIds : ProductUpdateByIdFind(p, id)
        \/ \E b \in Bodies : ProductUpdateByIdWrite(p, b)
        \/ \E id \in ProductIds, b \in Bodies : ProductReplaceById(p, id, b)
        \/ \E id \in ProductIds : ProductDeleteById(p, id)

ProductSpec == Init /\ [][ProductNext]_vars

----------------------------------------------------------------------------
(* Properties of the authentication action, login and the token lifetime *)

Guarded(r) == r.op = "whoAmI"

\* the user lookup of verifyToken threw
LookupFailed(r) == r.lookup \in {"UnauthorizedError", "Error"}

\* C1: a request to an endpoint declared DENY_ALL is never let through: with
\* no token, an invalid token or a valid token of a stored user it is answered
\* 401, the handler does not run and no current user is set.
C1_DenyAllDenies ==
    (Guarded(resp) /\ resp.metadata.type = "DENY_ALL" /\ ~LookupFailed(resp))
        => (resp.status = 401 /\ ~resp.allowed /\ resp.cur = NoUser)

\* C2: a request to an endpoint declared HAS_ROLES(required) is let through
\* iff an identity is present and every required role is among its roles.
C2_HasAllRolesIffSubset ==
    (Guarded(resp) /\ resp.metadata.type = "HAS_ROLES")
        => (resp.allowed <=> (/\ resp.cur # NoUser
                              /\ resp.metadata.roles
                                    \subseteq resp.cur.roles.permissions))

PermitAllPassed(r) ==
    /\ r.authCalls = 0
    /\ r.lookups = 0
    /\ r.doneCalls = 0
    /\ r.cur = NoUser

\* C3: a request to an endpoint declared PERMIT_ALL always reaches the handler,
\* whatever token it carries, with no call of the strategy, no user lookup and
\* no current user.
C3_PermitAllAllows ==
    /\ (Guarded(resp) /\ resp.metadata.type = "PERMIT_ALL")
          => (resp.allowed /\ resp.status # 401 /\ PermitAllPassed(resp))
    /\ \A p \in Procs :
          (Guarded(req[p]) /\ req[p].metadata.type = "PERMIT_ALL")
              => (req[p].pc = "handler" /\ PermitAllPassed(req[p]))

C3_Witness ==
    /\ Guarded(resp)
    /\ resp.metadata.type = "PERMIT_ALL"
    /\ resp.allowed
    /\ resp.token \in issued
    /\ resp.at >= resp.token.exp

\* C4: a request to an endpoint declared IS_AUTHENTICATED either carries a
\* token that verifies and resolves to a stored user, and then runs the handler
\* with that current user, or (no token, invalid or expired token, no such
\* user, no strategy resolved) is answered 401 without running the handler.
C4_IsAuthenticatedOr401 ==
    (Guarded(resp) /\ resp.metadata.type = "IS_AUTHENTICATED"
                   /\ ~LookupFailed(resp))
        => \/ /\ resp.allowed
              /\ resp.cur # NoUser
              /\ jwtVerify(resp.token, resp.at)
           \/ /\ resp.status = 401
              /\ ~resp.allowed
              /\ resp.cur = NoUser

LoginAnswer(r) ==
    r.op = "login" =>
        /\ (r.email = Missing \/ r.password = Missing) => r.status = 400
        /\ (r.email # Missing /\ r.password # Missing /\ r.user = NoStored)
              => r.status = 401
        /\ (r.user # NoStored /\ r.user.password # hash(r.password, r.user.password.salt))
              => r.status = 401
        /\ r.status \in {200, 400, 401}
        /\ r.status = 200 <=> r.result # NoToken
        /\ r.result # NoToken =>
              /\ \E i \in 1..Len(users) : users[i] = r.user
              /\ r.user.email = r.email
              /\ r.user.password = hash(r.password, r.user.password.salt)
              /\ r.result.email = r.email

LoginStep ==
    \E p \in Procs : req'[p] # req[p] /\ "login" \in {req[p].op, req'[p].op}

Verified(r) == r.authCalls = 1 /\ r.pc \in {"verifyToken", "handler"}

\* C7: a token issued by login at time t passes the strategy's check at every
\* time before t + 3600 and is rejected at every time after it; no request is
\* given a current user on a token that has expired.
C7_TokenLifetime ==
    /\ (Guarded(resp) /\ resp.authCalls = 1 /\ resp.token \in issued)
          => /\ resp.at < resp.token.iat + ExpiresIn
                  => (resp.lookups = 1 /\ resp.doneCalls >= 1)
             /\ resp.at > resp.token.iat + ExpiresIn
                  => (resp.status = 401 /\ ~resp.allowed /\ resp.lookups = 0)
    /\ resp.cur # NoUser
          => (resp.at < resp.token.exp /\ resp.cur.email = resp.token.email)
    /\ \A p \in Procs :
          Verified(req[p]) => req[p].at < req[p].token.exp
    /\ \A k \in issued : k.exp = k.iat + ExpiresIn /\ k.iat <= now

C7_Witness ==
    /\ Guarded(resp)
    /\ resp.token \in issued
    /\ resp.at = resp.token.iat + ExpiresIn + 1
    /\ resp.status = 401

\* C9: every invocation of verifyToken calls `done` exactly once.
C9_DoneExactlyOnce ==
    (Guarded(resp) /\ resp.lookups = 1) => resp.doneCalls = 1

----------------------------------------------------------------------------
(* Properties of signup and whoAmI under concurrent requests *)

\* C5: no two stored users share an email, and no signup succeeds for an
\* email that another stored user has.
C5_UniqueEmails ==
    /\ \A i, j \in 1..Len(users) :
          i # j => users[i].email # users[j].email
    /\ (resp.op = "signup" /\ resp.status = 200)
          => \A i \in 1..Len(users) :
                users[i].email = resp.email => users[i].id = resp.id

\* the stored users created by a signup with these credentials
SignedUpAs(email, password) ==
    {users[i] : i \in {j \in 1..Len(users) :
        /\ users[j].email = email
        /\ users[j].password = hash(password, users[j].password.salt)}}

\* C8: whoAmI with an unexpired token obtained by a login as user U answers
\* the id of the record U's signup created, never the id of another user.
C8_WhoAmIIsLoginUser ==
    (Guarded(resp) /\ resp.metadata = securedDefault
                   /\ resp.token \in issued /\ resp.at < resp.token.exp)
        => \A l \in logins :
              l.token = resp.token
                => \A u \in SignedUpAs(l.email, l.password) :
                      resp.status = 200 /\ resp.id = u.id

----------------------------------------------------------------------------
(* Properties of the product methods *)

\* C10: a stored product is changed or deleted only by a request whose
\* current user is the product's owner.
C10_OnlyOwnerChanges ==
    [][\A k \in products :
          k \notin products'
            => \E p \in Procs : /\ req'[p] # req[p]
                                /\ req[p].cur # NoUser
                                /\ req[p].cur.id = k.user_id]_vars

====
